---- MODULE Spec2Model ----
(***************************************************************************)
(* A model of skgstat.SpaceTimeVariogram: the object's fields, its setters *)
(* and its cached, lazily computed reads.                                  *)
(*                                                                         *)
(* Every operation is an operator from the object's state s (a record of   *)
(* its fields) to a result [s, ret, exc]: the state the call leaves, its   *)
(* return value, and the exception that ended it ("none" when it returned).*)
(* A call that raises keeps the assignments it made before the raise.      *)
(***************************************************************************)
EXTENDS Integers, Sequences, FiniteSets

(***************************************************************************)
(* Bounds of the model.                                                    *)
(***************************************************************************)
\* the longest time series of a value matrix
MaxT == 3
\* the largest lag count passed to x_lags, t_lags, xbins and tbins
MaxLags == 2
\* the observations of the exhaustive value matrices of SpecDiff are 0 or MaxVal
MaxVal == 1
\* the number of calls made on an object after its construction
MaxCalls == 3

(***************************************************************************)
(* Python values.                                                          *)
(***************************************************************************)
\* an attribute that is None, or holds x
None == <<>>
Some(x) == <<x>>
Get(o) == o[1]

\* an argument of a call, tagged with its Python type
\* (s: a string's text, q: a number's value, l: a list's entries)
StrArg(x) == [kind |-> "str", s |-> x, q |-> <<0, 1>>, l |-> <<>>]
IntArg(x) == [kind |-> "int", s |-> "", q |-> <<x, 1>>, l |-> <<>>]
FloatArg(n, d) == [kind |-> "float", s |-> "", q |-> <<n, d>>, l |-> <<>>]
ListArg(x) == [kind |-> "list", s |-> "", q |-> <<0, 1>>, l |-> x]
NoneArg == [kind |-> "none", s |-> "", q |-> <<0, 1>>, l |-> <<>>]
\* a function object
CallableArg == [kind |-> "callable", s |-> "", q |-> <<0, 1>>, l |-> <<>>]

\* str.lower() on the strings the model passes
Lower(x) ==
    CASE x = "MAX" -> "max"
      [] x = "Even" -> "even"
      [] x = "Matheron" -> "matheron"
      [] x = "Space" -> "space"
      [] x = "Time" -> "time"
      [] OTHER -> x

Abs(x) == IF x < 0 THEN -x ELSE x

RECURSIVE GCD(_, _)
GCD(a, b) == IF b = 0 THEN a ELSE GCD(b, a % b)

\* the float n/d, d > 0, as a reduced fraction
Rat(n, d) == LET g == GCD(Abs(n), d) IN <<n \div g, d \div g>>
\* numpy.nan
NaN == <<0, 0>>
IsNaN(q) == q[2] = 0
RatLt(a, b) == a[1] * b[2] < b[1] * a[2]
RatLeq(a, b) == a[1] * b[2] <= b[1] * a[2]

RECURSIVE SumSeq(_)
SumSeq(q) == IF q = <<>> THEN 0 ELSE Head(q) + SumSeq(Tail(q))

RECURSIVE MaxSeq(_)
MaxSeq(q) == IF Len(q) = 1 THEN q[1]
             ELSE LET m == MaxSeq(Tail(q)) IN IF q[1] > m THEN q[1] ELSE m

\* the entries of q in increasing order
RECURSIVE Sorted(_)
Sorted(q) ==
    IF q = <<>> THEN <<>>
    ELSE LET m == CHOOSE i \in 1..Len(q) : \A j \in 1..Len(q) : q[i] <= q[j]
         IN <<q[m]>> \o Sorted([k \in 1..(Len(q) - 1) |-> IF k < m THEN q[k] ELSE q[k + 1]])

\* The element of a one-element set: The({e : x \in {v}}) is e with x
\* standing for the value v, which is computed once.
The(S) == CHOOSE x \in S : TRUE

RECURSIVE Flatten(_)
Flatten(rows) == IF rows = <<>> THEN <<>> ELSE Head(rows) \o Flatten(Tail(rows))

\* numpy.where(mask)[0]: the 0-based indices at which pred holds, increasing
RECURSIVE WhereFrom(_, _, _)
WhereFrom(q, v, i) ==
    IF i > Len(q) THEN <<>>
    ELSE (IF q[i] = v THEN <<i - 1>> ELSE <<>>) \o WhereFrom(q, v, i + 1)

(***************************************************************************)
(* Collaborators: scipy's pdist, skgstat.binning and skgstat.estimators.   *)
(***************************************************************************)
\* the metric names the model knows; any other name makes pdist raise
Metrics == {"euclidean", "sqeuclidean"}

\* The distance of two points under a metric. Every point set of the model
\* lies on one axis (one-dimensional coordinates, and the time points
\* (k, 0)), where the euclidean distance is the sum of the absolute
\* coordinate differences.
PointDist(metric, p, q) ==
    IF metric = "euclidean"
    THEN SumSeq([c \in 1..Len(p) |-> Abs(p[c] - q[c])])
    ELSE SumSeq([c \in 1..Len(p) |-> (p[c] - q[c]) * (p[c] - q[c])])

\* the pairs (i, j), i < j, of 1..n in row-major order, from (i, j) on
RECURSIVE UpperPairsFrom(_, _, _)
UpperPairsFrom(n, i, j) ==
    IF i >= n THEN <<>>
    ELSE IF j > n THEN UpperPairsFrom(n, i + 1, i + 2)
    ELSE <<(<<i, j>>)>> \o UpperPairsFrom(n, i, j + 1)

UpperPairs(n) == UpperPairsFrom(n, 1, 2)

\* scipy.spatial.distance.pdist(points, metric=metric): the flattened upper
\* triangle of the distance matrix, or ValueError for an unknown metric
pdist(points, metric) ==
    IF metric \notin Metrics THEN [ret |-> <<>>, exc |-> "ValueError"]
    ELSE The({[ret |-> [k \in 1..Len(prs) |->
                          PointDist(metric, points[prs[k][1]], points[prs[k][2]])],
               exc |-> "none"] :
              prs \in {UpperPairs(Len(points))}})

\* binning.even_width_lags(distances, n, maxlag): n edges of equal width up
\* to maxlag, which is the largest distance when maxlag is None
even_width_lags(d, n, maxlag) ==
    LET m == IF maxlag = None THEN Rat(MaxSeq(d), 1) ELSE Get(maxlag)
    IN [k \in 1..n |-> Rat(k * m[1], n * m[2])]

\* binning.uniform_count_lags(distances, n, maxlag): the k/n quantiles
\* (nearest rank) of the distances that are not above maxlag
uniform_count_lags(d, n, maxlag) ==
    LET m == IF maxlag = None THEN Rat(MaxSeq(d), 1) ELSE Get(maxlag)
    IN The({[k \in 1..n |-> Rat(kept[(k * Len(kept) + n - 1) \div n], 1)] :
            kept \in {Sorted(SelectSeq(d, LAMBDA x : RatLeq(Rat(x, 1), m)))}})

\* the binning function stored under a name
bin_func(name, d, n, maxlag) ==
    IF name = "even" THEN even_width_lags(d, n, maxlag)
    ELSE uniform_count_lags(d, n, maxlag)

\* the names set_estimator looks up in skgstat.estimators
EstimatorNames ==
    {"matheron", "cressie", "dowd", "genton", "minmax", "percentile", "entropy"}

\* a tensor cell: numpy.nan, or a difference of two observations
NaNCell == <<>>
Cell(v) == <<v>>

\* The value an estimator returns for a sequence of tensor cells.
\* matheron is half the mean squared difference, numpy.nan for an empty
\* sequence or one holding numpy.nan; a user's callable is modelled by len;
\* the other built-in estimators are uninterpreted functions of their input.
estimator_value(name, cells) ==
    IF name = "matheron"
    THEN IF cells = <<>> \/ \E k \in 1..Len(cells) : cells[k] = NaNCell
         THEN [tag |-> "num", q |-> NaN, arg |-> <<>>]
         ELSE [tag |-> "num",
               q |-> Rat(SumSeq([k \in 1..Len(cells) |-> cells[k][1] * cells[k][1]]),
                         2 * Len(cells)),
               arg |-> <<>>]
    ELSE IF name = "callable"
    THEN [tag |-> "num", q |-> Rat(Len(cells), 1), arg |-> <<>>]
    ELSE [tag |-> name, q |-> NaN, arg |-> cells]

(***************************************************************************)
(* The object. s is the record of its fields; a call's result is           *)
(* [s, ret, exc].                                                          *)
(***************************************************************************)
Return(s, v) == [s |-> s, ret |-> v, exc |-> "none"]
Raise(s, e) == [s |-> s, ret |-> None, exc |-> e]

\* a numpy array of observations: its dtype, its shape and its entries
Array(dtype, shape, data) == [dtype |-> dtype, shape |-> shape, data |-> data]

\* set_values storing the matrix and dismissing the tensor before the shape
\* checks
set_values_stores_before_checks(s, values) ==
    IF values.dtype \notin {"float", "int"} THEN Raise(s, "AttributeError")
    ELSE IF Len(values.shape) # 2
    THEN Raise([s EXCEPT !._values = values, !._diff = None], "ValueError")
    ELSE IF values.shape[1] # Len(s._X)
    THEN Raise([s EXCEPT !._values = values, !._diff = None], "ValueError")
    ELSE IF values.shape[2] <= 1
    THEN Raise([s EXCEPT !._values = values, !._diff = None], "ValueError")
    ELSE Return([s EXCEPT !._values = values, !._diff = None], None)

\* set_values and the values setter
set_values(s, values) ==
    IF values.dtype \notin {"float", "int"} THEN Raise(s, "AttributeError")
    ELSE IF Len(values.shape) # 2 THEN Raise(s, "ValueError")
    ELSE IF values.shape[1] # Len(s._X) THEN Raise(s, "ValueError")
    ELSE IF values.shape[2] <= 1 THEN Raise(s, "ValueError")
    ELSE Return([s EXCEPT !._values = values, !._diff = None], None)

\* set_xdist_func dropping the stored maxlag along with the distances
set_xdist_func_resets_maxlag(s, func_name) ==
    IF func_name.kind = "str"
    THEN Return([s EXCEPT !._xdist_func = func_name.s, !._xdist = None,
                          !._maxlag = None], None)
    ELSE Raise(s, "ValueError")

\* set_xdist_func and the xdist_func setter: the metric name is kept in the
\* closure and handed to pdist only when the distances are computed
set_xdist_func(s, func_name) ==
    IF func_name.kind = "str"
    THEN Return([s EXCEPT !._xdist_func = func_name.s, !._xdist = None], None)
    ELSE Raise(s, "ValueError")

\* set_tdist_func and the tdist_func setter
set_tdist_func(s, func_name) ==
    IF func_name.kind = "str"
    THEN Return([s EXCEPT !._tdist_func = func_name.s, !._tdist = None], None)
    ELSE Raise(s, "ValueError")

\* __calc_xdist
calc_xdist(s, force) ==
    IF s._xdist = None \/ force
    THEN The({IF r.exc # "none" THEN Raise(s, r.exc)
              ELSE Return([s EXCEPT !._xdist = Some(r.ret)], None) :
              r \in {pdist(s._X, s._xdist_func)}})
    ELSE Return(s, None)

\* the time points (k, 0), k = 0 .. t - 1, of a value matrix with t columns
time_points(values) == [k \in 1..values.shape[2] |-> <<k - 1, 0>>]

\* __calc_tdist
calc_tdist(s, force) ==
    IF s._tdist = None \/ force
    THEN The({IF r.exc # "none" THEN Raise(s, r.exc)
              ELSE Return([s EXCEPT !._tdist = Some(r.ret)], None) :
              r \in {pdist(time_points(s._values), s._tdist_func)}})
    ELSE Return(s, None)

\* the xdistance property
xdistance(s) ==
    The({IF r.exc # "none" THEN r ELSE Return(r.s, Get(r.s._xdist)) :
         r \in {calc_xdist(s, FALSE)}})

\* the tdistance property
tdistance(s) ==
    The({IF r.exc # "none" THEN r ELSE Return(r.s, Get(r.s._tdist)) :
         r \in {calc_tdist(s, FALSE)}})

\* the x_lags setter without the reset of the groups
set_x_lags_keeps_groups(s, lags) ==
    IF lags.kind # "int" THEN Raise(s, "ValueError")
    ELSE Return([s EXCEPT !._x_lags = lags.q[1], !._xbins = None], None)

\* the x_lags setter
set_x_lags(s, lags) ==
    IF lags.kind # "int" THEN Raise(s, "ValueError")
    ELSE Return([s EXCEPT !._x_lags = lags.q[1], !._xbins = None,
                          !._xgroups = None], None)

\* the x_lags property
x_lags(s) == Return(s, s._x_lags)

\* the t_lags setter resetting the bins and groups of both axes
set_t_lags_resets_space(s, lags) ==
    Return([s EXCEPT !._t_lags = lags, !._tbins = None, !._tgroups = None,
                     !._xbins = None, !._xgroups = None], None)

\* the t_lags setter
set_t_lags(s, lags) ==
    Return([s EXCEPT !._t_lags = lags, !._tbins = None, !._tgroups = None], None)

\* the t_lags property
t_lags(s) ==
    IF s._t_lags.kind = "str"
    THEN IF Lower(s._t_lags.s) = "max"
         THEN Return(s, s._values.shape[2] - 1)
         ELSE Raise(s, "ValueError")
    ELSE Return(s, s._t_lags.q[1])

\* numpy.median and numpy.mean of a distance array
median(d) ==
    The({IF Len(d) % 2 = 1 THEN Rat(sd[Len(d) \div 2 + 1], 1)
         ELSE Rat(sd[Len(d) \div 2] + sd[Len(d) \div 2 + 1], 2) :
         sd \in {Sorted(d)}})

mean(d) == Rat(SumSeq(d), Len(d))

\* the maxlag setter removing the binning of both axes
set_maxlag_resets_both_axes(s, value) ==
    The({IF value.kind = "none" THEN Return([s1 EXCEPT !._maxlag = None], None)
         ELSE IF value.kind = "str"
         THEN IF value.s \in {"median", "mean"}
              THEN IF xd.exc # "none" THEN Raise(xd.s, xd.exc)
                   ELSE Return([xd.s EXCEPT !._maxlag =
                                  Some(IF value.s = "median" THEN median(xd.ret)
                                       ELSE mean(xd.ret))], None)
              ELSE Return(s1, None)
         ELSE IF value.kind \notin {"int", "float"} THEN Raise(s1, "TypeError")
         ELSE IF RatLt(value.q, <<1, 1>>)
         THEN IF xd.exc # "none" THEN Raise(xd.s, xd.exc)
              ELSE Return([xd.s EXCEPT !._maxlag =
                             Some(Rat(value.q[1] * MaxSeq(xd.ret), value.q[2]))], None)
         ELSE Return([s1 EXCEPT !._maxlag = Some(value.q)], None) :
         s1 \in {[s EXCEPT !.cov = None, !.cof = None, !._xbins = None,
                           !._xgroups = None, !._tbins = None, !._tgroups = None]},
         xd \in {xdistance([s EXCEPT !.cov = None, !.cof = None, !._xbins = None,
                                     !._xgroups = None, !._tbins = None,
                                     !._tgroups = None])}})

\* the maxlag setter scaling every number by the largest distance, not only
\* those below 1
set_maxlag_scales_every_number(s, value) ==
    The({IF value.kind = "none" THEN Return([s1 EXCEPT !._maxlag = None], None)
         ELSE IF value.kind = "str"
         THEN IF value.s \in {"median", "mean"}
              THEN IF xd.exc # "none" THEN Raise(xd.s, xd.exc)
                   ELSE Return([xd.s EXCEPT !._maxlag =
                                  Some(IF value.s = "median" THEN median(xd.ret)
                                       ELSE mean(xd.ret))], None)
              ELSE Return(s1, None)
         ELSE IF value.kind \notin {"int", "float"} THEN Raise(s1, "TypeError")
         ELSE IF xd.exc # "none" THEN Raise(xd.s, xd.exc)
         ELSE Return([xd.s EXCEPT !._maxlag =
                        Some(Rat(value.q[1] * MaxSeq(xd.ret), value.q[2]))], None) :
         s1 \in {[s EXCEPT !.cov = None, !.cof = None, !._xbins = None,
                           !._xgroups = None]},
         xd \in {xdistance([s EXCEPT !.cov = None, !.cof = None, !._xbins = None,
                                     !._xgroups = None])}})

\* the maxlag setter
set_maxlag(s, value) ==
    The({IF value.kind = "none" THEN Return([s1 EXCEPT !._maxlag = None], None)
         ELSE IF value.kind = "str"
         THEN IF value.s \in {"median", "mean"}
              THEN IF xd.exc # "none" THEN Raise(xd.s, xd.exc)
                   ELSE Return([xd.s EXCEPT !._maxlag =
                                  Some(IF value.s = "median" THEN median(xd.ret)
                                       ELSE mean(xd.ret))], None)
              ELSE Return(s1, None)
         ELSE IF value.kind \notin {"int", "float"} THEN Raise(s1, "TypeError")
         ELSE IF RatLt(value.q, <<1, 1>>)
         THEN IF xd.exc # "none" THEN Raise(xd.s, xd.exc)
              ELSE Return([xd.s EXCEPT !._maxlag =
                             Some(Rat(value.q[1] * MaxSeq(xd.ret), value.q[2]))], None)
         ELSE Return([s1 EXCEPT !._maxlag = Some(value.q)], None) :
         s1 \in {[s EXCEPT !.cov = None, !.cof = None, !._xbins = None,
                           !._xgroups = None]},
         xd \in {xdistance([s EXCEPT !.cov = None, !.cof = None, !._xbins = None,
                                     !._xgroups = None])}})

\* `bin_func.lower == name` in set_bin_func: the bound method str.lower
\* itself, not its result, is compared with the string
lower_method_eq(text, name) == FALSE

\* whether an axis argument names the space axis, or the time axis
is_space(axis) == Lower(axis.s) = "space" \/ Lower(axis.s) = "s"
is_time(axis) == Lower(axis.s) = "time" \/ Lower(axis.s) = "t"

\* set_bin_func taking every axis that is not the space axis for the time
\* axis
set_bin_func_defaults_to_time(s, func, axis) ==
    IF func.kind # "str" THEN Raise(s, "AttributeError")
    ELSE IF Lower(func.s) # "even" /\ ~lower_method_eq(func.s, "uniform")
    THEN Raise(s, "ValueError")
    ELSE LET f == IF Lower(func.s) = "even" THEN "even" ELSE "uniform"
         IN IF is_space(axis)
            THEN Return([s EXCEPT !._xbin_func = f, !._xgroups = None,
                                  !._xbins = None, !.cof = None], None)
            ELSE Return([s EXCEPT !._tbin_func = f, !._tgroups = None,
                                  !._tbins = None, !.cof = None], None)

\* set_bin_func
set_bin_func(s, func, axis) ==
    IF func.kind # "str" THEN Raise(s, "AttributeError")
    ELSE IF Lower(func.s) # "even" /\ ~lower_method_eq(func.s, "uniform")
    THEN Raise(s, "ValueError")
    ELSE LET f == IF Lower(func.s) = "even" THEN "even" ELSE "uniform"
         IN IF is_space(axis)
            THEN Return([s EXCEPT !._xbin_func = f, !._xgroups = None,
                                  !._xbins = None, !.cof = None], None)
            ELSE IF is_time(axis)
            THEN Return([s EXCEPT !._tbin_func = f, !._tgroups = None,
                                  !._tbins = None, !.cof = None], None)
            ELSE Raise(s, "ValueError")

\* the xbins property
xbins(s) ==
    IF s._xbins = None
    THEN The({IF xd.exc # "none" THEN xd
              ELSE The({Return([xd.s EXCEPT !._xbins = Some(e)], e) :
                        e \in {bin_func(xd.s._xbin_func, xd.ret, xd.s._x_lags,
                                        xd.s._maxlag)}}) :
              xd \in {xdistance(s)}})
    ELSE Return(s, Get(s._xbins))

\* the xbins setter storing explicit edges without adopting their length as
\* the lag count
set_xbins_keeps_lag_count(s, bins) ==
    IF bins.kind = "int"
    THEN Return([s EXCEPT !._xbins = None, !._x_lags = bins.q[1],
                          !._xgroups = None], None)
    ELSE IF bins.kind = "list"
    THEN Return([s EXCEPT !._xbins = Some(bins.l), !._xgroups = None], None)
    ELSE IF bins.kind = "str"
    THEN The({IF r.exc # "none" THEN r
              ELSE Return([r.s EXCEPT !._xgroups = None], None) :
              r \in {set_bin_func(s, bins, StrArg("space"))}})
    ELSE Raise(s, "AttributeError")

\* the xbins setter
set_xbins(s, bins) ==
    IF bins.kind = "int"
    THEN Return([s EXCEPT !._xbins = None, !._x_lags = bins.q[1],
                          !._xgroups = None], None)
    ELSE IF bins.kind = "list"
    THEN Return([s EXCEPT !._xbins = Some(bins.l), !._x_lags = Len(bins.l),
                          !._xgroups = None], None)
    ELSE IF bins.kind = "str"
    THEN The({IF r.exc # "none" THEN r
              ELSE Return([r.s EXCEPT !._xgroups = None], None) :
              r \in {set_bin_func(s, bins, StrArg("space"))}})
    ELSE Raise(s, "AttributeError")

\* the tbins property
tbins(s) ==
    IF s._tbins = None
    THEN The({IF td.exc # "none" THEN td
              ELSE The({IF tl.exc # "none" THEN tl
                        ELSE The({Return([tl.s EXCEPT !._tbins = Some(e)], e) :
                                  e \in {bin_func(tl.s._tbin_func, td.ret, tl.ret, None)}}) :
                        tl \in {t_lags(td.s)}}) :
              td \in {tdistance(s)}})
    ELSE Return(s, Get(s._tbins))

\* the tbins setter
set_tbins(s, bins) ==
    IF bins.kind = "int"
    THEN Return([s EXCEPT !._tbins = None, !._t_lags = bins,
                          !._tgroups = None], None)
    ELSE IF bins.kind = "list"
    THEN Return([s EXCEPT !._tbins = Some(bins.l), !._t_lags = IntArg(Len(bins.l)),
                          !._tgroups = None], None)
    ELSE IF bins.kind = "str"
    THEN The({IF r.exc # "none" THEN r
              ELSE Return([r.s EXCEPT !._tgroups = None], None) :
              r \in {set_bin_func(s, bins, StrArg("time"))}})
    ELSE Raise(s, "AttributeError")

\* set_estimator resetting the tensor along with the fitting placeholders
set_estimator_resets_tensor(s, estimator_name) ==
    IF estimator_name.kind = "str"
    THEN IF Lower(estimator_name.s) \in EstimatorNames
         THEN Return([s EXCEPT !.cof = None, !.cov = None, !._diff = None,
                               !._estimator = Lower(estimator_name.s)], None)
         ELSE Raise([s EXCEPT !.cof = None, !.cov = None], "ValueError")
    ELSE IF estimator_name.kind = "callable"
    THEN Return([s EXCEPT !.cof = None, !.cov = None, !._diff = None,
                          !._estimator = "callable"], None)
    ELSE Raise([s EXCEPT !.cof = None, !.cov = None], "ValueError")

\* set_estimator comparing the name as it was passed, without lower()
set_estimator_case_sensitive(s, estimator_name) ==
    IF estimator_name.kind = "str"
    THEN IF estimator_name.s \in EstimatorNames
         THEN Return([s EXCEPT !.cof = None, !.cov = None,
                               !._estimator = estimator_name.s], None)
         ELSE Raise([s EXCEPT !.cof = None, !.cov = None], "ValueError")
    ELSE IF estimator_name.kind = "callable"
    THEN Return([s EXCEPT !.cof = None, !.cov = None, !._estimator = "callable"], None)
    ELSE Raise([s EXCEPT !.cof = None, !.cov = None], "ValueError")

\* set_estimator and the estimator setter
set_estimator(s, estimator_name) ==
    IF estimator_name.kind = "str"
    THEN IF Lower(estimator_name.s) \in EstimatorNames
         THEN Return([s EXCEPT !.cof = None, !.cov = None,
                               !._estimator = Lower(estimator_name.s)], None)
         ELSE Raise([s EXCEPT !.cof = None, !.cov = None], "ValueError")
    ELSE IF estimator_name.kind = "callable"
    THEN Return([s EXCEPT !.cof = None, !.cov = None, !._estimator = "callable"], None)
    ELSE Raise([s EXCEPT !.cof = None, !.cov = None], "ValueError")

\* the inner loops with the two time indices exchanged: v[xi, tj] - v[xj, ti]
RECURSIVE diff_row_swapped(_, _, _, _, _, _, _)
diff_row_swapped(v, xi, xj, inner, row, k, tidx) ==
    IF k = inner * inner THEN [row |-> row, exc |-> "none"]
    ELSE LET ti == k \div inner
             tj == k % inner
         IN IF ti < tj
            THEN IF tidx >= Len(row) THEN [row |-> row, exc |-> "IndexError"]
                 ELSE diff_row_swapped(v, xi, xj, inner,
                                       [row EXCEPT ![tidx + 1] =
                                          Cell(v[xi + 1][tj + 1] - v[xj + 1][ti + 1])],
                                       k + 1, tidx + 1)
            ELSE diff_row_swapped(v, xi, xj, inner, row, k + 1, tidx)

\* The two inner loops of _calc_diff for the spatial pair (xi, xj), from
\* step k of the inner * inner steps of (ti, tj): each ti < tj writes
\* v[xi, ti] - v[xj, tj] at column tidx of the row and advances tidx.
\* Writing at a column the row does not have raises IndexError.
RECURSIVE diff_row(_, _, _, _, _, _, _)
diff_row(v, xi, xj, inner, row, k, tidx) ==
    IF k = inner * inner THEN [row |-> row, exc |-> "none"]
    ELSE LET ti == k \div inner
             tj == k % inner
         IN IF ti < tj
            THEN IF tidx >= Len(row) THEN [row |-> row, exc |-> "IndexError"]
                 ELSE diff_row(v, xi, xj, inner,
                               [row EXCEPT ![tidx + 1] =
                                  Cell(v[xi + 1][ti + 1] - v[xj + 1][tj + 1])],
                               k + 1, tidx + 1)
            ELSE diff_row(v, xi, xj, inner, row, k + 1, tidx)

\* The two outer loops of _calc_diff, from step k of the outer * outer
\* steps of (xi, xj): each xi < xj fills row xidx and advances xidx.
RECURSIVE diff_rows(_, _, _, _, _, _)
diff_rows(v, outer, inner, diff, k, xidx) ==
    IF k = outer * outer THEN [diff |-> diff, exc |-> "none"]
    ELSE IF k \div outer < k % outer
    THEN IF xidx >= Len(diff) THEN [diff |-> diff, exc |-> "IndexError"]
         ELSE The({IF r.exc # "none"
                   THEN [diff |-> [diff EXCEPT ![xidx + 1] = r.row], exc |-> r.exc]
                   ELSE diff_rows(v, outer, inner, [diff EXCEPT ![xidx + 1] = r.row],
                                  k + 1, xidx + 1) :
                   r \in {diff_row(v, k \div outer, k % outer, inner,
                                   diff[xidx + 1], 0, 0)}})
    ELSE diff_rows(v, outer, inner, diff, k + 1, xidx)

\* _calc_diff: the tensor is allocated with the sizes of the two distance
\* arrays, stored, and then filled in place
calc_diff(s, force) ==
    IF ~force /\ s._diff # None THEN Return(s, None)
    ELSE The({IF xd.exc # "none" THEN xd
              ELSE The({IF td.exc # "none" THEN td
                        ELSE The({IF r.exc # "none"
                                  THEN Raise([td.s EXCEPT !._diff = Some(r.diff)], r.exc)
                                  ELSE Return([td.s EXCEPT !._diff = Some(r.diff)], None) :
                                  r \in {diff_rows(td.s._values.data,
                                                   td.s._values.shape[1],
                                                   td.s._values.shape[2],
                                                   [a \in 1..Len(xd.ret) |->
                                                      [b \in 1..Len(td.ret) |-> NaNCell]],
                                                   0, 0)}}) :
                        td \in {tdistance(xd.s)}}) :
              xd \in {xdistance(s)}})

\* the classification loop with classes closed below and open above:
\* bins[i-1] <= d < bins[i]
RECURSIVE classify_from_closed_below(_, _, _, _)
classify_from_closed_below(d, bins, grp, i) ==
    IF i > Len(bins) THEN grp
    ELSE classify_from_closed_below(
             d, bins,
             [k \in 1..Len(d) |->
                IF RatLeq(IF i = 1 THEN <<0, 1>> ELSE bins[i - 1], <<d[k], 1>>)
                   /\ RatLt(<<d[k], 1>>, bins[i])
                THEN i - 1 ELSE grp[k]],
             i + 1)

\* The classification loop of _calc_group from class i (1-based) on: the
\* pairs with bins[i-1] < d <= bins[i] (0 below the first edge) get class
\* index i - 1, overwriting what an earlier class wrote.
RECURSIVE classify_from(_, _, _, _)
classify_from(d, bins, grp, i) ==
    IF i > Len(bins) THEN grp
    ELSE LET lo == IF i = 1 THEN <<0, 1>> ELSE bins[i - 1]
             hi == bins[i]
         IN classify_from(d, bins,
                          [k \in 1..Len(d) |->
                             IF RatLt(lo, <<d[k], 1>>) /\ RatLeq(<<d[k], 1>>, hi)
                             THEN i - 1 ELSE grp[k]],
                          i + 1)

\* the group array of a distance array: every pair starts as -1
classify(d, bins) == classify_from(d, bins, [k \in 1..Len(d) |-> -1], 1)

\* _calc_group
calc_group(s, axis, force) ==
    IF ~is_space(axis) /\ ~is_time(axis) THEN Raise(s, "ValueError")
    ELSE IF ~force /\ (IF is_space(axis) THEN s._xgroups ELSE s._tgroups) # None
    THEN Return(s, None)
    ELSE The({IF b.exc # "none" THEN b
              ELSE The({IF d.exc # "none" THEN d
                        ELSE IF is_space(axis)
                        THEN Return([d.s EXCEPT !._xgroups = Some(classify(d.ret, b.ret))],
                                    None)
                        ELSE Return([d.s EXCEPT !._tgroups = Some(classify(d.ret, b.ret))],
                                    None) :
                        d \in {IF is_space(axis) THEN xdistance(b.s)
                               ELSE tdistance(b.s)}}) :
              b \in {IF is_space(axis) THEN xbins(s) ELSE tbins(s)}})

\* lag_groups
lag_groups(s, axis) ==
    IF axis.kind # "str" THEN Raise(s, "AttributeError")
    ELSE IF is_space(axis)
    THEN The({IF r.exc # "none" THEN r ELSE Return(r.s, Get(r.s._xgroups)) :
              r \in {IF s._xgroups = None THEN calc_group(s, axis, FALSE)
                     ELSE Return(s, None)}})
    ELSE IF is_time(axis)
    THEN The({IF r.exc # "none" THEN r ELSE Return(r.s, Get(r.s._tgroups)) :
              r \in {IF s._tgroups = None THEN calc_group(s, axis, FALSE)
                     ELSE Return(s, None)}})
    ELSE Raise(s, "ValueError")

\* preprocessing
preprocessing(s, force) ==
    The({IF r1.exc # "none" THEN r1 ELSE
    The({IF r2.exc # "none" THEN r2 ELSE
    The({IF r3.exc # "none" THEN r3 ELSE
    The({IF r4.exc # "none" THEN r4 ELSE
         calc_group(r4.s, StrArg("time"), force) :
         r4 \in {calc_group(r3.s, StrArg("space"), force)}}) :
         r3 \in {calc_diff(r2.s, force)}}) :
         r2 \in {calc_tdist(r1.s, force)}}) :
         r1 \in {calc_xdist(s, force)}})

\* diff[rows][:, cols].flatten(): the cells of the selected rows and
\* columns (0-based indices) in row-major order; an index the tensor does
\* not have raises IndexError
select(diff, rows, cols) ==
    IF \E a \in 1..Len(rows) : rows[a] >= Len(diff) THEN Raise(None, "IndexError")
    ELSE IF \E b \in 1..Len(cols) : cols[b] >= Len(diff[1]) THEN Raise(None, "IndexError")
    ELSE Return(None, Flatten([a \in 1..Len(rows) |->
                                 [b \in 1..Len(cols) |-> diff[rows[a] + 1][cols[b] + 1]]]))

\* the loops of lag_classes with the time lags outside: all space lags of a
\* time lag before the next time lag
RECURSIVE lag_class_items_time_major(_, _, _, _, _, _, _)
lag_class_items_time_major(diff, xgrp, tgrp, xl, tl, x, t) ==
    IF t >= tl THEN Return(None, <<>>)
    ELSE IF x >= xl THEN lag_class_items_time_major(diff, xgrp, tgrp, xl, tl, 0, t + 1)
    ELSE The({IF item.exc # "none" THEN item
              ELSE The({IF rest.exc # "none" THEN rest
                        ELSE Return(None, <<item.ret>> \o rest.ret) :
                        rest \in {lag_class_items_time_major(diff, xgrp, tgrp, xl, tl,
                                                             x + 1, t)}}) :
              item \in {select(diff, WhereFrom(xgrp, x, 1), WhereFrom(tgrp, t, 1))}})

\* The loops of lag_classes from cell (x, t) on, all time lags of a space
\* lag before the next space lag: the selections yielded, up to the first
\* that raises.
RECURSIVE lag_class_items(_, _, _, _, _, _, _)
lag_class_items(diff, xgrp, tgrp, xl, tl, x, t) ==
    IF x >= xl THEN Return(None, <<>>)
    ELSE IF t >= tl THEN lag_class_items(diff, xgrp, tgrp, xl, tl, x + 1, 0)
    ELSE The({IF item.exc # "none" THEN item
              ELSE The({IF rest.exc # "none" THEN rest
                        ELSE Return(None, <<item.ret>> \o rest.ret) :
                        rest \in {lag_class_items(diff, xgrp, tgrp, xl, tl, x, t + 1)}}) :
              item \in {select(diff, WhereFrom(xgrp, x, 1), WhereFrom(tgrp, t, 1))}})

\* lag_classes, iterated to its end with no other call in between
lag_classes(s) ==
    The({IF r0.exc # "none" THEN r0 ELSE
    The({IF rx.exc # "none" THEN rx ELSE
    The({IF rt.exc # "none" THEN rt
         ELSE IF rt.s._x_lags <= 0 THEN Return(rt.s, <<>>) ELSE
    The({IF tl.exc # "none" THEN tl ELSE
    The({IF items.exc # "none" THEN Raise(rt.s, items.exc)
         ELSE Return(rt.s, items.ret) :
         items \in {lag_class_items(Get(rt.s._diff), rx.ret, rt.ret,
                                    rt.s._x_lags, tl.ret, 0, 0)}}) :
         tl \in {t_lags(rt.s)}}) :
         rt \in {lag_groups(rx.s, StrArg("time"))}}) :
         rx \in {lag_groups(r0.s, StrArg("space"))}}) :
         r0 \in {IF s._diff = None THEN calc_diff(s, FALSE) ELSE Return(s, None)}})

\* numpy.fromiter(items, dtype=float): a one-dimensional array of the items
fromiter(items) == Array("float", <<Len(items)>>, items)

\* the estimator calls a read of experimental that returns has made: one
\* per item of lag_classes, in order, on the item; none when the entropy
\* check raises first
experimental_calls(s) ==
    IF s._estimator = "entropy" THEN <<>>
    ELSE The({IF r.exc # "none" THEN <<>> ELSE r.ret : r \in {lag_classes(s)}})

\* _get_experimental without the check for the entropy estimator
experimental_without_entropy_check(s) ==
    The({IF r.exc # "none" THEN r
         ELSE Return(r.s, fromiter([k \in 1..Len(r.ret) |->
                                      estimator_value(s._estimator, r.ret[k])])) :
         r \in {lag_classes(s)}})

\* _get_experimental and the experimental property
experimental(s) ==
    IF s._estimator = "entropy" THEN Raise(s, "NotImplementedError")
    ELSE The({IF r.exc # "none" THEN r
              ELSE Return(r.s, fromiter([k \in 1..Len(r.ret) |->
                                           estimator_value(s._estimator, r.ret[k])])) :
              r \in {lag_classes(s)}})

\* numpy.where(groups == lag)[0] in _get_member: a group array that is None
\* compares unequal as a whole and selects nothing
member_idxs(groups, lag) ==
    IF groups = None THEN <<>> ELSE WhereFrom(Get(groups), lag, 1)

\* _get_member: reads the stored group arrays and tensor as they are
get_member(s, xlag, tlag) ==
    IF s._diff = None THEN Raise(s, "TypeError")
    ELSE The({IF r.exc # "none" THEN Raise(s, r.exc) ELSE Return(s, r.ret) :
              r \in {select(Get(s._diff), member_idxs(s._xgroups, xlag),
                            member_idxs(s._tgroups, tlag))}})

\* get_marginal
get_marginal(s, axis, lag) ==
    IF axis.kind # "str" THEN Raise(s, "AttributeError")
    ELSE IF ~is_space(axis) /\ ~is_time(axis) THEN Raise(s, "ValueError")
    ELSE The({IF n.exc # "none" THEN n ELSE
         The({IF \E i \in 1..n.ret : m[i].exc # "none"
              THEN Raise(s, m[CHOOSE i \in 1..n.ret : m[i].exc # "none"
                                  /\ \A j \in 1..(i - 1) : m[j].exc = "none"].exc)
              ELSE Return(s, fromiter([k \in 1..n.ret |->
                                         estimator_value(s._estimator, m[k].ret)])) :
              m \in {[i \in 1..n.ret |->
                        IF is_space(axis) THEN get_member(s, i - 1, lag)
                        ELSE get_member(s, lag, i - 1)]}}) :
              n \in {IF is_space(axis) THEN x_lags(s) ELSE t_lags(s)}})

\* the estimator calls a get_marginal that returns has made: one per lag
\* of the axis, on what _get_member selects
marginal_calls(s, axis, lag) ==
    IF axis.kind # "str" \/ (~is_space(axis) /\ ~is_time(axis)) THEN <<>>
    ELSE The({IF n.exc # "none" THEN <<>> ELSE
         The({IF \E i \in 1..n.ret : m[i].exc # "none" THEN <<>>
              ELSE [k \in 1..n.ret |-> m[k].ret] :
              m \in {[i \in 1..n.ret |->
                        IF is_space(axis) THEN get_member(s, i - 1, lag)
                        ELSE get_member(s, lag, i - 1)]}}) :
              n \in {IF is_space(axis) THEN x_lags(s) ELSE t_lags(s)}})

(***************************************************************************)
(* The state: the fields of one SpaceTimeVariogram, the call that was made *)
(* last with the exception it ended in, and the generator a lag_classes()  *)
(* call has returned to a consumer who draws its items one by one.         *)
(***************************************************************************)
VARIABLES _X, _values, _diff, _xdist, _tdist, _xdist_func, _tdist_func,
          _x_lags, _t_lags, _maxlag, _estimator, _xbin_func, _tbin_func,
          _xgroups, _tgroups, _xbins, _tbins, cov, cof, last, calls, it

fields == <<_X, _values, _diff, _xdist, _tdist, _xdist_func, _tdist_func,
            _x_lags, _t_lags, _maxlag, _estimator, _xbin_func, _tbin_func,
            _xgroups, _tgroups, _xbins, _tbins, cov, cof>>

vars == <<fields, last, calls, it>>

\* the object as a record of its fields
self ==
    [_X |-> _X, _values |-> _values, _diff |-> _diff, _xdist |-> _xdist,
     _tdist |-> _tdist, _xdist_func |-> _xdist_func, _tdist_func |-> _tdist_func,
     _x_lags |-> _x_lags, _t_lags |-> _t_lags, _maxlag |-> _maxlag,
     _estimator |-> _estimator, _xbin_func |-> _xbin_func,
     _tbin_func |-> _tbin_func, _xgroups |-> _xgroups, _tgroups |-> _tgroups,
     _xbins |-> _xbins, _tbins |-> _tbins, cov |-> cov, cof |-> cof]

\* the fields as __init__ has them before it calls the setters; a field
\* that holds None until its setter runs has a blank of its later type
blank(coordinates) ==
    [_X |-> coordinates, _values |-> Array("int", <<0, 0>>, <<>>), _diff |-> None,
     _xdist |-> None, _tdist |-> None, _xdist_func |-> "", _tdist_func |-> "",
     _x_lags |-> 0, _t_lags |-> NoneArg, _maxlag |-> None, _estimator |-> "",
     _xbin_func |-> "", _tbin_func |-> "", _xgroups |-> None, _tgroups |-> None,
     _xbins |-> None, _tbins |-> None, cov |-> None, cof |-> None]

\* __init__: the setters in the order of the constructor, then a forced
\* preprocessing run; the first call that raises ends the construction
init(coordinates, values, a_xdist_func, a_tdist_func, a_x_lags, a_t_lags, a_maxlag, a_xbins, a_tbins, a_estimator) ==
    The({IF r1.exc # "none" THEN r1 ELSE
    The({IF r2.exc # "none" THEN r2 ELSE
    The({IF r3.exc # "none" THEN r3 ELSE
    The({IF r4.exc # "none" THEN r4 ELSE
    The({IF r5.exc # "none" THEN r5 ELSE
    The({IF r6.exc # "none" THEN r6 ELSE
    The({IF r7.exc # "none" THEN r7 ELSE
    The({IF r8.exc # "none" THEN r8 ELSE
    The({IF r9.exc # "none" THEN r9 ELSE
         preprocessing(r9.s, TRUE) :
         r9 \in {set_bin_func(r8.s, a_tbins, StrArg("time"))}}) :
         r8 \in {set_bin_func(r7.s, a_xbins, StrArg("space"))}}) :
         r7 \in {set_estimator(r6.s, a_estimator)}}) :
         r6 \in {set_maxlag(r5.s, a_maxlag)}}) :
         r5 \in {set_t_lags(r4.s, a_t_lags)}}) :
         r4 \in {set_x_lags(r3.s, a_x_lags)}}) :
         r3 \in {set_tdist_func(r2.s, a_tdist_func)}}) :
         r2 \in {set_xdist_func(r1.s, a_xdist_func)}}) :
         r1 \in {set_values(blank(coordinates), values)}})

\* The frame of a lag_classes() generator: where it stands (idle: not
\* created; yielded: suspended at its yield; done: exhausted; failed: ended
\* by the exception exc), its locals xgrp and tgrp, the bounds xl and tl of
\* the two range objects, the loop indices x and t, and the item it yielded
\* last. diff0 and tl0 are the tensor and the time lag count as they were
\* when the locals were bound, and n is the number of items yielded.
frame(state, exc, xgrp, tgrp, diff0, xl, tl, tl0, x, t, n, item) ==
    [state |-> state, exc |-> exc, xgrp |-> xgrp, tgrp |-> tgrp, diff0 |-> diff0,
     xl |-> xl, tl |-> tl, tl0 |-> tl0, x |-> x, t |-> t, n |-> n, item |-> item]

idle == frame("idle", "none", <<>>, <<>>, None, 0, 0, 0, 0, 0, 0, <<>>)

(***************************************************************************)
(* The arguments the calls are made with.                                  *)
(***************************************************************************)
\* the coordinate array the object is built on: three points on a line
Coordinates == {<<(<<0>>), (<<1>>), (<<3>>)>>}

\* the lengths of the time series, and the lag counts, that are passed
TimeLengths == {2, MaxT}
LagCounts == {1, MaxLags}

\* value matrices set_values accepts for n coordinates: v[i, k] = i * i + k
\* and v[i, k] = i * k, for every time length
ValidValues(n) ==
    UNION {{Array("int", <<n, t>>, [i \in 1..n |-> [k \in 1..t |-> i * i + k]]),
            Array("int", <<n, t>>, [i \in 1..n |-> [k \in 1..t |-> i * k]])} :
           t \in TimeLengths}

\* arrays set_values rejects: a row too many, a single column, one
\* dimension, and a dtype that is neither int nor float
InvalidValues(n) ==
    {Array("int", <<n + 1, 2>>, [i \in 1..(n + 1) |-> <<i, i>>]),
     Array("int", <<n, 1>>, [i \in 1..n |-> <<i>>]),
     Array("int", <<n>>, [i \in 1..n |-> i]),
     Array("str", <<n, 2>>, [i \in 1..n |-> <<0, 0>>])}

MetricArgs == {StrArg("euclidean"), StrArg("sqeuclidean"), StrArg("bogus"), IntArg(1)}
XLagsArgs == {IntArg(n) : n \in LagCounts} \cup {StrArg("max")}
TLagsArgs == {IntArg(n) : n \in LagCounts} \cup {StrArg("max"), StrArg("foo")}
MaxlagArgs ==
    {NoneArg, StrArg("median"), StrArg("mean"), StrArg("bogus"), FloatArg(1, 2), IntArg(2),
     ListArg(<<>>)}
BinFuncArgs == {StrArg("Even"), StrArg("uniform"), StrArg("bogus")}
AxisArgs == {StrArg("space"), StrArg("t"), StrArg("bogus")}
BinsArgs ==
    {IntArg(n) : n \in LagCounts} \cup
    {ListArg(<<(<<1, 1>>), (<<2, 1>>)>>), ListArg(<<(<<1, 1>>)>>),
     StrArg("even"), StrArg("uniform"), NoneArg}
EstimatorArgs == {StrArg("matheron"), StrArg("entropy"), StrArg("bogus"), CallableArg, IntArg(1)}
\* the lag index get_marginal is asked for
LagArgs == {-1, 0, MaxLags - 1}

(***************************************************************************)
(* The operations as actions.                                              *)
(***************************************************************************)
\* the fields become those of s
Commit(s) ==
    /\ _X' = s._X /\ _values' = s._values /\ _diff' = s._diff
    /\ _xdist' = s._xdist /\ _tdist' = s._tdist
    /\ _xdist_func' = s._xdist_func /\ _tdist_func' = s._tdist_func
    /\ _x_lags' = s._x_lags /\ _t_lags' = s._t_lags /\ _maxlag' = s._maxlag
    /\ _estimator' = s._estimator
    /\ _xbin_func' = s._xbin_func /\ _tbin_func' = s._tbin_func
    /\ _xgroups' = s._xgroups /\ _tgroups' = s._tgroups
    /\ _xbins' = s._xbins /\ _tbins' = s._tbins
    /\ cov' = s.cov /\ cof' = s.cof

\* the fields are those of s
Holds(s) ==
    /\ _X = s._X /\ _values = s._values /\ _diff = s._diff
    /\ _xdist = s._xdist /\ _tdist = s._tdist
    /\ _xdist_func = s._xdist_func /\ _tdist_func = s._tdist_func
    /\ _x_lags = s._x_lags /\ _t_lags = s._t_lags /\ _maxlag = s._maxlag
    /\ _estimator = s._estimator
    /\ _xbin_func = s._xbin_func /\ _tbin_func = s._tbin_func
    /\ _xgroups = s._xgroups /\ _tgroups = s._tgroups
    /\ _xbins = s._xbins /\ _tbins = s._tbins
    /\ cov = s.cov /\ cof = s.cof

\* the call op(axis) ended as r did
Call(op, axis, r) ==
    /\ calls < MaxCalls
    /\ calls' = calls + 1
    /\ Commit(r.s)
    /\ last' = [op |-> op, axis |-> axis, exc |-> r.exc]
    /\ it' = it

Init ==
    \E c \in Coordinates : \E v \in ValidValues(Len(c)) :
        LET r == init(c, v, StrArg("euclidean"), StrArg("euclidean"), IntArg(MaxLags), StrArg("max"),
                      NoneArg, StrArg("even"), StrArg("even"), StrArg("matheron"))
        IN /\ r.exc = "none"
           /\ Holds(r.s)
           /\ last = [op |-> "__init__", axis |-> "", exc |-> "none"]
           /\ calls = 0
           /\ it = idle

SetValues ==
    \E v \in ValidValues(Len(_X)) \cup InvalidValues(Len(_X)) :
        Call("set_values", "", set_values(self, v))

SetXdistFunc == \E a \in MetricArgs : Call("set_xdist_func", "", set_xdist_func(self, a))

SetTdistFunc == \E a \in MetricArgs : Call("set_tdist_func", "", set_tdist_func(self, a))

SetXLags == \E a \in XLagsArgs : Call("x_lags", "", set_x_lags(self, a))

SetTLags == \E a \in TLagsArgs : Call("t_lags", "", set_t_lags(self, a))

SetMaxlag == \E a \in MaxlagArgs : Call("maxlag", "", set_maxlag(self, a))

SetBinFunc ==
    \E a \in BinFuncArgs : \E ax \in AxisArgs :
        Call("set_bin_func", ax.s, set_bin_func(self, a, ax))

SetXbins == \E a \in BinsArgs : Call("xbins", "", set_xbins(self, a))

SetTbins == \E a \in BinsArgs : Call("tbins", "", set_tbins(self, a))

SetEstimator == \E a \in EstimatorArgs : Call("set_estimator", "", set_estimator(self, a))

ReadXdistance == Call("read_xdistance", "", xdistance(self))

ReadTdistance == Call("read_tdistance", "", tdistance(self))

ReadXbins == Call("read_xbins", "", xbins(self))

ReadTbins == Call("read_tbins", "", tbins(self))

LagGroups == \E ax \in AxisArgs : Call("lag_groups", ax.s, lag_groups(self, ax))

Experimental == Call("experimental", "", experimental(self))

GetMarginal ==
    \E ax \in AxisArgs : \E lag \in LagArgs :
        Call("get_marginal", ax.s, get_marginal(self, ax, lag))

Preprocessing == \E force \in BOOLEAN : Call("preprocessing", "", preprocessing(self, force))

Next ==
    \/ SetValues \/ SetXdistFunc \/ SetTdistFunc \/ SetXLags \/ SetTLags
    \/ SetMaxlag \/ SetBinFunc \/ SetXbins \/ SetTbins \/ SetEstimator
    \/ ReadXdistance \/ ReadTdistance \/ ReadXbins \/ ReadTbins \/ LagGroups
    \/ Experimental \/ GetMarginal \/ Preprocessing

Spec == Init /\ [][Next]_vars

(***************************************************************************)
(* The tensor kernel on every value matrix: an object is built on each     *)
(* matrix with MaxT columns over {0, MaxVal}, its tensor is rebuilt by a   *)
(* forced preprocessing run and read through experimental and the          *)
(* marginals.                                                              *)
(***************************************************************************)
\* every integer matrix with n rows and t columns over {0, MaxVal}
AllMatrices(n, t) ==
    {Array("int", <<n, t>>, d) : d \in [1..n -> [1..t -> {0, MaxVal}]]}

InitDiff ==
    \E c \in Coordinates : \E v \in AllMatrices(Len(c), MaxT) :
        LET r == init(c, v, StrArg("euclidean"), StrArg("euclidean"), IntArg(MaxLags), StrArg("max"),
                      NoneArg, StrArg("even"), StrArg("even"), StrArg("matheron"))
        IN /\ r.exc = "none"
           /\ Holds(r.s)
           /\ last = [op |-> "__init__", axis |-> "", exc |-> "none"]
           /\ calls = 0
           /\ it = idle

NextDiff == Preprocessing \/ Experimental \/ GetMarginal

SpecDiff == InitDiff /\ [][NextDiff]_vars

(***************************************************************************)
(* The classification of _calc_group on explicit bin edges: objects are    *)
(* built on coordinate arrays with and without duplicate points, every     *)
(* sequence of spatial edges over 1..MaxEdge is assigned through the xbins *)
(* setter and the groups are read through lag_groups.                      *)
(***************************************************************************)
\* the largest explicit bin edge
MaxEdge == 3

\* coordinate arrays: distinct points, and two points at the same place
GroupCoordinates ==
    {<<(<<0>>), (<<1>>), (<<3>>)>>, <<(<<0>>), (<<0>>), (<<2>>)>>,
     <<(<<0>>), (<<2>>), (<<4>>)>>}

\* every sequence of LagCounts edges over 1..MaxEdge, increasing or not
EdgeLists ==
    UNION {[1..n -> {<<e, 1>> : e \in 1..MaxEdge}] : n \in LagCounts}

InitGroup ==
    \E c \in GroupCoordinates : \E v \in ValidValues(Len(c)) :
        LET r == init(c, v, StrArg("euclidean"), StrArg("euclidean"), IntArg(MaxLags), StrArg("max"),
                      NoneArg, StrArg("even"), StrArg("even"), StrArg("matheron"))
        IN /\ r.exc = "none"
           /\ Holds(r.s)
           /\ last = [op |-> "__init__", axis |-> "", exc |-> "none"]
           /\ calls = 0
           /\ it = idle

SetXbinsEdges == \E e \in EdgeLists : Call("xbins", "", set_xbins(self, ListArg(e)))

NextGroup == SetXbinsEdges \/ LagGroups \/ ReadXbins

SpecGroup == InitGroup /\ [][NextGroup]_vars

(***************************************************************************)
(* A worked example: three points at x = 0, 1, 2 with three time steps     *)
(* each, euclidean metrics, two lags on each axis, even-width bins, a      *)
(* maxlag of 2 and the matheron estimator, built on every value matrix     *)
(* over {0, MaxVal} and then read.                                         *)
(***************************************************************************)
InitExample ==
    \E v \in AllMatrices(3, 3) :
        LET r == init(<<(<<0>>), (<<1>>), (<<2>>)>>, v, StrArg("euclidean"),
                      StrArg("euclidean"), IntArg(2), IntArg(2), IntArg(2),
                      StrArg("even"), StrArg("even"), StrArg("matheron"))
        IN /\ r.exc = "none"
           /\ Holds(r.s)
           /\ last = [op |-> "__init__", axis |-> "", exc |-> "none"]
           /\ calls = 0
           /\ it = idle

NextExample ==
    \/ ReadXdistance \/ ReadTdistance \/ ReadXbins \/ ReadTbins \/ LagGroups
    \/ Experimental

SpecExample == InitExample /\ [][NextExample]_vars

(***************************************************************************)
(* lag_classes() as a generator: a consumer draws its items one by one     *)
(* and calls setters and reads on the object between two items.            *)
(***************************************************************************)
\* the generator ends with the exception exc
failed(f, exc) == [f EXCEPT !.state = "failed", !.exc = exc]

\* yield diff_select(x, t).flatten(): the selection is made in the tensor
\* the object holds now, with the group arrays bound when the generator
\* started; indexing a tensor that is None raises TypeError
diff_select(s, f) ==
    IF s._diff = None THEN failed(f, "TypeError")
    ELSE The({IF r.exc # "none" THEN failed(f, r.exc)
              ELSE [f EXCEPT !.state = "yielded", !.item = r.ret, !.n = f.n + 1] :
              r \in {select(Get(s._diff), WhereFrom(f.xgrp, f.x, 1),
                            WhereFrom(f.tgrp, f.t, 1))}})

\* The outer loop of lag_classes reaches index x: past the bound of its
\* range the generator is exhausted; otherwise range(self.t_lags) is
\* evaluated on the object as it is now and the first item of x is yielded.
RECURSIVE enter(_, _, _)
enter(s, f, x) ==
    IF x >= f.xl THEN [f EXCEPT !.state = "done"]
    ELSE The({IF tl.exc # "none" THEN failed(f, tl.exc)
              ELSE IF tl.ret <= 0 THEN enter(s, f, x + 1)
              ELSE diff_select(s, [f EXCEPT !.x = x, !.t = 0, !.tl = tl.ret]) :
              tl \in {t_lags(s)}})

\* the first next() on the generator: the tensor is computed when it is
\* None, the group arrays are bound to the locals, range(self.x_lags) is
\* evaluated and the loops run to the first yield
lag_classes_start(s) ==
    The({IF r0.exc # "none" THEN [s |-> r0.s, f |-> failed(idle, r0.exc)] ELSE
    The({IF rx.exc # "none" THEN [s |-> rx.s, f |-> failed(idle, rx.exc)] ELSE
    The({IF rt.exc # "none" THEN [s |-> rt.s, f |-> failed(idle, rt.exc)]
         ELSE [s |-> rt.s,
               f |-> enter(rt.s,
                           frame("idle", "none", rx.ret, rt.ret, rt.s._diff,
                                 rt.s._x_lags, 0,
                                 IF t_lags(rt.s).exc = "none" THEN t_lags(rt.s).ret ELSE 0,
                                 0, 0, 0, <<>>),
                           0)] :
         rt \in {lag_groups(rx.s, StrArg("time"))}}) :
         rx \in {lag_groups(r0.s, StrArg("space"))}}) :
         r0 \in {IF s._diff = None THEN calc_diff(s, FALSE) ELSE Return(s, None)}})

\* a later next(): the inner loop goes on to t + 1 within the bound of its
\* range, or the outer loop goes on to x + 1
lag_classes_resume(s, f) ==
    IF f.t + 1 < f.tl THEN diff_select(s, [f EXCEPT !.t = f.t + 1])
    ELSE enter(s, f, f.x + 1)

\* the consumer creates the generator and draws its first item
IterStart ==
    /\ it.state = "idle"
    /\ Commit(lag_classes_start(self).s)
    /\ it' = lag_classes_start(self).f
    /\ last' = [op |-> "lag_classes", axis |-> "", exc |-> lag_classes_start(self).f.exc]
    /\ calls' = calls

\* the consumer draws the next item
IterNext ==
    /\ it.state = "yielded"
    /\ it' = lag_classes_resume(self, it)
    /\ last' = [op |-> "next", axis |-> "", exc |-> lag_classes_resume(self, it).exc]
    /\ UNCHANGED <<fields, calls>>

NextIter ==
    \/ IterStart \/ IterNext
    \/ SetValues \/ SetXLags \/ SetTLags \/ SetXbins \/ SetTbins
    \/ Experimental \/ Preprocessing

SpecIter == Init /\ [][NextIter]_vars

(***************************************************************************)
(* Properties.                                                             *)
(***************************************************************************)
\* the last call was op and it returned
Returned(op) == last.op = op /\ last.exc = "none"

\* the object with its temporal distances, bins and groups and its tensor
\* dropped, so that every read recomputes them
time_cleared(s) ==
    [s EXCEPT !._diff = None, !._tdist = None, !._tbins = None, !._tgroups = None]

\* the object with its spatial distances, bins and groups dropped
space_cleared(s) ==
    [s EXCEPT !._xdist = None, !._xbins = None, !._xgroups = None]

\* two calls end alike: the same exception, or the same return value
SameOutcome(r1, r2) == r1.exc = r2.exc /\ (r1.exc = "none" => r1.ret = r2.ret)

\* C1: after set_values has succeeded, the next read of tdistance, of
\* tbins, of lag_groups('time') and of experimental gives what it gives on
\* an object whose temporal distances, bins, groups and tensor were all
\* invalidated, that is, what is computed from the new matrix.
C1_SetValuesInvalidatesTimeAxis ==
    Returned("set_values") =>
        /\ SameOutcome(tdistance(self), tdistance(time_cleared(self)))
        /\ SameOutcome(tbins(self), tbins(time_cleared(self)))
        /\ SameOutcome(lag_groups(self, StrArg("time")),
                       lag_groups(time_cleared(self), StrArg("time")))
        /\ SameOutcome(experimental(self), experimental(time_cleared(self)))

\* C2: after set_xdist_func (set_tdist_func) has succeeded with a metric
\* pdist knows, the next read of xbins and lag_groups('space') (tbins and
\* lag_groups('time')) gives what it gives on an object whose distances,
\* bins and groups of that axis were all invalidated, that is, what is
\* computed from the distances under the new metric.
C2_SetDistFuncInvalidatesAxis ==
    /\ (Returned("set_xdist_func") /\ _xdist_func \in Metrics) =>
        /\ SameOutcome(xbins(self), xbins(space_cleared(self)))
        /\ SameOutcome(lag_groups(self, StrArg("space")),
                       lag_groups(space_cleared(self), StrArg("space")))
    /\ (Returned("set_tdist_func") /\ _tdist_func \in Metrics) =>
        /\ SameOutcome(tbins(self), tbins([self EXCEPT !._tdist = None,
                                             !._tbins = None, !._tgroups = None]))
        /\ SameOutcome(lag_groups(self, StrArg("time")),
                       lag_groups([self EXCEPT !._tdist = None, !._tbins = None,
                                     !._tgroups = None], StrArg("time")))

\* the setters
Setters ==
    {"set_values", "set_xdist_func", "set_tdist_func", "x_lags", "t_lags",
     "maxlag", "set_bin_func", "xbins", "tbins", "set_estimator"}

\* C3: after a successful setter call, whenever experimental can be read,
\* get_marginal('space', 0)[i] is the experimental value of cell (i, 0) for
\* every i and get_marginal('time', 0)[j] is that of cell (0, j) for every j.
C3_MarginalMatchesExperimental ==
    LET e == experimental(self)
        ms == get_marginal(self, StrArg("space"), 0)
        mt == get_marginal(self, StrArg("time"), 0)
        tl == t_lags(self).ret
    IN (last.op \in Setters /\ last.exc = "none" /\ e.exc = "none") =>
        /\ ms.exc = "none"
        /\ mt.exc = "none"
        /\ \A i \in 0..(_x_lags - 1) : ms.ret.data[i + 1] = e.ret.data[i * tl + 1]
        /\ \A j \in 0..(tl - 1) : mt.ret.data[j + 1] = e.ret.data[j + 1]

\* n * (n - 1) / 2
PairCount(n) == (n * (n - 1)) \div 2

\* C4: whenever the tensor is computed and the call returned, it has n(n-1)/2 rows of t(t-1)/2
\* cells for the n rows and t columns of the current value matrix.
C4_TensorShape ==
    (_diff # None /\ last.exc = "none") =>
        /\ Len(Get(_diff)) = PairCount(_values.shape[1])
        /\ \A a \in 1..Len(Get(_diff)) :
               Len(Get(_diff)[a]) = PairCount(_values.shape[2])

\* C5: the tensor _calc_diff builds holds, at row a and column b, the
\* difference v[i, ti] - v[j, tj] of the a-th pair i < j and the b-th pair
\* ti < tj in the row-major order of the distance arrays.
C5_TensorEntries ==
    LET v == _values.data
        xp == UpperPairs(_values.shape[1])
        tp == UpperPairs(_values.shape[2])
    IN _diff # None =>
        /\ Len(Get(_diff)) = Len(xp)
        /\ \A a \in 1..Len(xp) :
            /\ Len(Get(_diff)[a]) = Len(tp)
            /\ \A b \in 1..Len(tp) :
                   Get(_diff)[a][b] = Cell(v[xp[a][1]][tp[b][1]] - v[xp[a][2]][tp[b][2]])

\* a forced preprocessing run has rebuilt a tensor in which the first and
\* the last temporal pair of some spatial pair differ
C5_Witness ==
    /\ Returned("preprocessing")
    /\ _diff # None
    /\ _values.shape[2] >= 3
    /\ \E a \in 1..Len(Get(_diff)) :
           Get(_diff)[a][1] # Get(_diff)[a][Len(Get(_diff)[a])]

\* C6: a setter call that raises leaves every field of the object as it was
\* before the call.
C6_RejectedSetterLeavesState ==
    [][(last'.op \in Setters /\ last'.exc # "none") => fields' = fields]_vars

\* C7: in every state, set_xdist_func and set_tdist_func called with a
\* metric name pdist does not know, the t_lags setter called with a string
\* other than 'max' and the maxlag setter called with a string other than
\* 'median' and 'mean' raise.
C7_InvalidConfigurationRejected ==
    /\ \A a \in MetricArgs : (a.kind = "str" /\ a.s \notin Metrics) =>
          /\ set_xdist_func(self, a).exc # "none"
          /\ set_tdist_func(self, a).exc # "none"
    /\ \A a \in TLagsArgs : (a.kind = "str" /\ Lower(a.s) # "max") =>
          set_t_lags(self, a).exc # "none"
    /\ \A a \in MaxlagArgs : (a.kind = "str" /\ a.s \notin {"median", "mean"}) =>
          set_maxlag(self, a).exc # "none"

\* C8: in every state, set_bin_func called with 'uniform' on either axis
\* returns, stores the uniform-count strategy for that axis and resets the
\* bins and the groups of that axis, as it does with 'even' for the
\* even-width strategy.
C8_BothBinningStrategiesAccepted ==
    \A name \in {"even", "uniform"} :
        LET rx == set_bin_func(self, StrArg(name), StrArg("space"))
            rt == set_bin_func(self, StrArg(name), StrArg("time"))
        IN /\ rx.exc = "none"
           /\ rx.s._xbin_func = name /\ rx.s._xbins = None /\ rx.s._xgroups = None
           /\ rt.exc = "none"
           /\ rt.s._tbin_func = name /\ rt.s._tbins = None /\ rt.s._tgroups = None

\* what lag_groups returns for an axis is the classification of the
\* distances read for that axis against the bin edges read for it
GroupsAreCurrent(s, space) ==
    LET ax == IF space THEN StrArg("space") ELSE StrArg("time")
        g == lag_groups(s, ax)
        d == IF space THEN xdistance(s) ELSE tdistance(s)
        b == IF space THEN xbins(s) ELSE tbins(s)
    IN g.exc = "none" => g.ret = classify(d.ret, b.ret)

\* C9: when the x_lags or xbins setter (the t_lags or tbins setter) has
\* returned, the spatial (temporal) groups are cleared, and the next
\* lag_groups read for that axis returns the classification of the current
\* distances of the axis against its current bin edges.
C9_LagSettersClearGroups ==
    /\ (last.op \in {"x_lags", "xbins"} /\ last.exc = "none") =>
           (_xgroups = None /\ GroupsAreCurrent(self, TRUE))
    /\ (last.op \in {"t_lags", "tbins"} /\ last.exc = "none") =>
           (_tgroups = None /\ GroupsAreCurrent(self, FALSE))

\* explicit spatial edges were assigned over cached groups: the groups are
\* cleared and the next lag_groups read classifies against the new edges
C9_Witness ==
    /\ Returned("xbins")
    /\ _xbins # None
    /\ _xgroups = None
    /\ _xdist # None
    /\ lag_groups(self, StrArg("space")).exc = "none"
    /\ lag_groups(self, StrArg("space")).ret # <<0, 1, 1>>

\* C10: a call of the x_lags or xbins setter leaves both distance arrays,
\* the tensor, the value matrix and the temporal bins and groups as they
\* were; a call of the t_lags or tbins setter leaves both distance arrays,
\* the tensor, the value matrix and the spatial bins and groups as they were.
C10_LagSettersFrame ==
    [][/\ last'.op \in {"x_lags", "xbins", "t_lags", "tbins"} =>
           /\ _xdist' = _xdist /\ _tdist' = _tdist
           /\ _diff' = _diff /\ _values' = _values
       /\ last'.op \in {"x_lags", "xbins"} =>
           (_tbins' = _tbins /\ _tgroups' = _tgroups)
       /\ last'.op \in {"t_lags", "tbins"} =>
           (_xbins' = _xbins /\ _xgroups' = _xgroups)]_vars

\* the t_lags setter has run on an object whose distances, tensor and
\* spatial bins and groups are all cached
C10_Witness ==
    /\ Returned("t_lags")
    /\ _tbins = None /\ _tgroups = None
    /\ _xdist # None /\ _tdist # None /\ _diff # None
    /\ _xbins # None /\ _xgroups # None

\* C11: a set_estimator call that returns leaves both distance arrays, the
\* bin edges and the groups of both axes and the tensor as they were (and
\* with them the inputs and the rest of the configuration): it changes the
\* estimator and the fitting placeholders cov and cof only.
C11_SetEstimatorFrame ==
    [][(last'.op = "set_estimator" /\ last'.exc = "none") =>
           /\ _xdist' = _xdist /\ _tdist' = _tdist
           /\ _xbins' = _xbins /\ _tbins' = _tbins
           /\ _xgroups' = _xgroups /\ _tgroups' = _tgroups
           /\ _diff' = _diff
           /\ _X' = _X /\ _values' = _values
           /\ _xdist_func' = _xdist_func /\ _tdist_func' = _tdist_func
           /\ _x_lags' = _x_lags /\ _t_lags' = _t_lags /\ _maxlag' = _maxlag
           /\ _xbin_func' = _xbin_func /\ _tbin_func' = _tbin_func]_vars

\* set_estimator has replaced the estimator of an object whose distances,
\* bins, groups and tensor are all cached
C11_Witness ==
    /\ Returned("set_estimator")
    /\ _estimator # "matheron"
    /\ _xdist # None /\ _tdist # None /\ _diff # None
    /\ _xbins # None /\ _tbins # None /\ _xgroups # None /\ _tgroups # None

\* distance d lies in class i (0-based) of the edges: edge[i-1] < d <= edge[i],
\* with edge[-1] = 0
InClass(d, bins, i) ==
    /\ RatLt(IF i = 0 THEN <<0, 1>> ELSE bins[i], <<d, 1>>)
    /\ RatLeq(<<d, 1>>, bins[i + 1])

\* the edges are strictly increasing
Increasing(bins) == \A i \in 1..(Len(bins) - 1) : RatLt(bins[i], bins[i + 1])

\* grp is the classification of d against the edges: every distance is in
\* the class it is assigned to, -1 is assigned exactly when no class holds
\* the distance, and under increasing edges the class is the only one
Classified(d, bins, grp) ==
    /\ Len(grp) = Len(d)
    /\ \A k \in 1..Len(d) :
        /\ IF \E i \in 0..(Len(bins) - 1) : InClass(d[k], bins, i)
           THEN grp[k] \in 0..(Len(bins) - 1) /\ InClass(d[k], bins, grp[k])
           ELSE grp[k] = -1
        /\ Increasing(bins) =>
               \A i \in 0..(Len(bins) - 1) : InClass(d[k], bins, i) => grp[k] = i

\* C12: the group array _calc_group stores for an axis assigns to each
\* distance the class i with edge[i-1] < d <= edge[i] (edge[-1] = 0) and -1
\* when there is no such class; a distance equal to edge[i] is in class i.
C12_GroupClassification ==
    /\ (Returned("lag_groups") /\ is_space(StrArg(last.axis))) =>
           Classified(Get(_xdist), Get(_xbins), Get(_xgroups))
    /\ (Returned("lag_groups") /\ is_time(StrArg(last.axis))) =>
           Classified(Get(_tdist), Get(_tbins), Get(_tgroups))

\* lag_groups('space') has classified, against explicit edges, a distance
\* equal to an edge below the last one into that edge's class and another
\* distance, above the last edge, as -1
C12_Witness ==
    /\ Returned("lag_groups") /\ is_space(StrArg(last.axis))
    /\ \E k \in 1..Len(Get(_xdist)) : \E i \in 1..(Len(Get(_xbins)) - 1) :
           /\ Get(_xbins)[i] = <<Get(_xdist)[k], 1>>
           /\ Get(_xgroups)[k] = i - 1
    /\ \E k \in 1..Len(Get(_xdist)) : Get(_xgroups)[k] = -1

\* the number of entries of q that are not v
CountNot(q, v) == Cardinality({k \in 1..Len(q) : q[k] # v})

\* C13: under increasing edges, the number of entries of the spatial group
\* array that are not -1 is the number of spatial distances that are not
\* above the last edge.
C13_ClassifiedCount ==
    (Returned("lag_groups") /\ is_space(StrArg(last.axis)) /\ Increasing(Get(_xbins))) =>
        CountNot(Get(_xgroups), -1) =
            Cardinality({k \in 1..Len(Get(_xdist)) :
                             RatLeq(<<Get(_xdist)[k], 1>>, Get(_xbins)[Len(Get(_xbins))])})

\* the selection of _get_member and diff_select for the classes (xlag, tlag)
\* holds a tensor entry whose spatial or temporal pair has group -1
UnclassifiedSelected(s, xlag, tlag) ==
    LET rows == member_idxs(s._xgroups, xlag)
        cols == member_idxs(s._tgroups, tlag)
    IN /\ rows # <<>> /\ cols # <<>>
       /\ \/ \E a \in 1..Len(rows) : Get(s._xgroups)[rows[a] + 1] = -1
          \/ \E b \in 1..Len(cols) : Get(s._tgroups)[cols[b] + 1] = -1

\* C14: no sequence lag_classes yields, and no slice get_marginal reduces
\* for any axis and any lag argument, holds a tensor entry whose spatial
\* or temporal pair is unclassified (group -1).
C14_UnclassifiedNeverEstimated ==
    /\ LET r == lag_classes(self)
       IN (r.exc = "none" /\ t_lags(r.s).exc = "none") =>
              \A x \in 0..(r.s._x_lags - 1) : \A t \in 0..(t_lags(r.s).ret - 1) :
                  ~UnclassifiedSelected(r.s, x, t)
    /\ \A lag \in LagArgs :
        /\ get_marginal(self, StrArg("space"), lag).exc = "none" =>
               \A i \in 0..(_x_lags - 1) : ~UnclassifiedSelected(self, i, lag)
        /\ get_marginal(self, StrArg("time"), lag).exc = "none" =>
               \A j \in 0..(t_lags(self).ret - 1) : ~UnclassifiedSelected(self, lag, j)

\* the estimator applied to the flattened tensor entries of s whose row has
\* spatial group x and whose column has temporal group t
cell_value(s, x, t) ==
    estimator_value(s._estimator,
                    select(Get(s._diff), WhereFrom(Get(s._xgroups), x, 1),
                           WhereFrom(Get(s._tgroups), t, 1)).ret)

\* C15: a read of experimental that returns gives an array of shape
\* (x_lags, t_lags) whose entry [x][t] is the estimator applied to the
\* flattened tensor entries of spatial group x and temporal group t.
C15_ExperimentalSurface ==
    LET e == experimental(self)
    IN e.exc = "none" =>
        /\ e.ret.shape = <<e.s._x_lags, t_lags(e.s).ret>>
        /\ \A x \in 0..(e.s._x_lags - 1) : \A t \in 0..(t_lags(e.s).ret - 1) :
               e.ret.data[x + 1][t + 1] = cell_value(e.s, x, t)

\* C16: an iteration of lag_classes that runs to its end yields
\* x_lags * t_lags items, the k-th (0-based) being the flattened selection
\* of cell (k div t_lags, k mod t_lags), and a second iteration right after
\* it yields the same sequence.
C16_LagClassesOrder ==
    \A r \in {lag_classes(self)} :
        r.exc = "none" =>
            \A tl \in {t_lags(r.s).ret} :
                /\ Len(r.ret) = r.s._x_lags * tl
                /\ \A k \in 0..(Len(r.ret) - 1) :
                       r.ret[k + 1] = select(Get(r.s._diff),
                                             WhereFrom(Get(r.s._xgroups), k \div tl, 1),
                                             WhereFrom(Get(r.s._tgroups), k % tl, 1)).ret
                /\ lag_classes(r.s) = Return(r.s, r.ret)

\* experimental has iterated lag_classes over two space lags and two time
\* lags, and the items of the cells (0, 1) and (1, 0) differ
C16_Witness ==
    /\ Returned("experimental")
    /\ _x_lags = 2 /\ t_lags(self).exc = "none" /\ t_lags(self).ret = 2
    /\ lag_classes(self).exc = "none"
    /\ Len(lag_classes(self).ret) = 4
    /\ lag_classes(self).ret[2] # lag_classes(self).ret[3]

\* C17: in every state, the edges a read of xbins returns are x_lags many
\* and the edges a read of tbins returns are t_lags many.
C17_BinsLength ==
    /\ xbins(self).exc = "none" => Len(xbins(self).ret) = x_lags(xbins(self).s).ret
    /\ (tbins(self).exc = "none" /\ t_lags(tbins(self).s).exc = "none") =>
           Len(tbins(self).ret) = t_lags(tbins(self).s).ret

\* C18: in every state, for each axis the group array lag_groups returns
\* has the length of the distance array read for that axis, and its entry i
\* is the class of entry i of the distance array under the edges read for
\* the axis.
C18_GroupsParallelToDistances ==
    /\ LET g == lag_groups(self, StrArg("space"))
       IN (g.exc = "none" /\ xdistance(g.s).exc = "none" /\ xbins(g.s).exc = "none") =>
              /\ Len(g.ret) = Len(xdistance(g.s).ret)
              /\ Classified(xdistance(g.s).ret, xbins(g.s).ret, g.ret)
    /\ LET g == lag_groups(self, StrArg("time"))
       IN (g.exc = "none" /\ tdistance(g.s).exc = "none" /\ tbins(g.s).exc = "none") =>
              /\ Len(g.ret) = Len(tdistance(g.s).ret)
              /\ Classified(tdistance(g.s).ret, tbins(g.s).ret, g.ret)

\* C19: in every state set_estimator('entropy') returns, and when the
\* estimator is the built-in entropy a read of experimental raises
\* NotImplementedError, makes no estimator call and leaves every field as
\* it was.
C19_EntropyNotImplemented ==
    /\ set_estimator(self, StrArg("entropy")).exc = "none"
    /\ set_estimator(self, StrArg("entropy")).s._estimator = "entropy"
    /\ _estimator = "entropy" =>
           /\ experimental(self).exc = "NotImplementedError"
           /\ experimental(self).s = self
           /\ experimental_calls(self) = <<>>

\* experimental was read and raised NotImplementedError on an object with
\* the entropy estimator whose tensor set_values had cleared
C19_Witness ==
    /\ last.op = "experimental" /\ last.exc = "NotImplementedError"
    /\ _estimator = "entropy"
    /\ _diff = None

\* C20: neither a read of experimental nor get_marginal, for either axis
\* and a lag class of the other axis, calls the estimator on an empty
\* sequence.
C20_EmptyCellNotEstimated ==
    /\ \A k \in 1..Len(experimental_calls(self)) : experimental_calls(self)[k] # <<>>
    /\ \A lag \in LagArgs :
        /\ (t_lags(self).exc = "none" /\ lag \in 0..(t_lags(self).ret - 1)) =>
               \A k \in 1..Len(marginal_calls(self, StrArg("space"), lag)) :
                   marginal_calls(self, StrArg("space"), lag)[k] # <<>>
        /\ lag \in 0..(_x_lags - 1) =>
               \A k \in 1..Len(marginal_calls(self, StrArg("time"), lag)) :
                   marginal_calls(self, StrArg("time"), lag)[k] # <<>>

\* a read made again on the state the first read left ends as the first
\* did and leaves every field as the first read left it
ReadAgain(r1, r2) == SameOutcome(r1, r2) /\ r2.s = r1.s

\* C21: in every state, a read of experimental, xdistance, tdistance,
\* xbins, tbins or lag_groups followed at once by the same read ends both
\* times alike, with equal return values, and the second read changes no
\* field.
C21_ReadsIdempotent ==
    /\ ReadAgain(xdistance(self), xdistance(xdistance(self).s))
    /\ ReadAgain(tdistance(self), tdistance(tdistance(self).s))
    /\ ReadAgain(xbins(self), xbins(xbins(self).s))
    /\ ReadAgain(tbins(self), tbins(tbins(self).s))
    /\ \A ax \in {StrArg("space"), StrArg("time")} :
           ReadAgain(lag_groups(self, ax), lag_groups(lag_groups(self, ax).s, ax))
    /\ ReadAgain(experimental(self), experimental(experimental(self).s))

\* C22: the object built on three points at x = 0, 1, 2 with three time
\* steps each, euclidean metrics, x_lags = 2, t_lags = 2, even-width bins,
\* maxlag = 2 and the matheron estimator has the spatial distances
\* [1, 2, 1], the spatial edges [1, 2], the spatial groups [0, 1, 0] and a
\* tensor of shape (3, 3); its experimental result has 2 * 2 cells and
\* neither group array holds -1.
C22_WorkedExample ==
    /\ xdistance(self).exc = "none" /\ xdistance(self).ret = <<1, 2, 1>>
    /\ xbins(self).exc = "none" /\ xbins(self).ret = <<(<<1, 1>>), (<<2, 1>>)>>
    /\ lag_groups(self, StrArg("space")).exc = "none"
    /\ lag_groups(self, StrArg("space")).ret = <<0, 1, 0>>
    /\ _diff # None
    /\ Len(Get(_diff)) = 3
    /\ \A a \in 1..Len(Get(_diff)) : Len(Get(_diff)[a]) = 3
    /\ experimental(self).exc = "none"
    /\ experimental(self).ret.shape = <<2 * 2>>
    /\ lag_groups(self, StrArg("time")).exc = "none"
    /\ CountNot(lag_groups(self, StrArg("space")).ret, -1) = 3
    /\ CountNot(lag_groups(self, StrArg("time")).ret, -1) = 3

\* the object of the example as its constructor left it, with the
\* distances, edges and groups of both axes and the tensor computed
C22_Witness ==
    /\ last.op = "__init__"
    /\ _X = <<(<<0>>), (<<1>>), (<<2>>)>>
    /\ _values.shape = <<3, 3>>
    /\ _x_lags = 2 /\ _t_lags = IntArg(2) /\ _maxlag = Some(<<2, 1>>)
    /\ _xdist # None /\ _xbins # None /\ _xgroups # None /\ _tgroups # None
    /\ _diff # None

\* C23: in every state the stored value matrix is two-dimensional with as
\* many rows as there are coordinates and more than one column, and
\* set_values called with a numeric array of another row count, of one
\* dimension or of a single column raises ValueError and leaves the stored
\* matrix and the cached tensor as they were.
C23_ValuesShape ==
    /\ Len(_values.shape) = 2
    /\ _values.shape[1] = Len(_X)
    /\ _values.shape[2] > 1
    /\ \A v \in InvalidValues(Len(_X)) :
           (/\ v.dtype = "int"
            /\ \/ Len(v.shape) # 2
               \/ v.shape[1] # Len(_X)
               \/ v.shape[2] <= 1) =>
               /\ set_values(self, v).exc = "ValueError"
               /\ set_values(self, v).s._values = _values
               /\ set_values(self, v).s._diff = _diff

\* set_values has raised ValueError on an object whose tensor is cached
C23_Witness ==
    /\ last.op = "set_values" /\ last.exc = "ValueError"
    /\ _diff # None
    /\ _values.shape[2] > 1

\* C24: in every state set_estimator returns for each of the names
\* matheron, cressie, dowd, genton, minmax, percentile and entropy, in
\* lower case or capitalised, and for a callable, and stores that
\* estimator; for any other string and for a value that is neither a
\* string nor callable it raises ValueError and the estimator stays the
\* one configured before.
C24_EstimatorNames ==
    /\ \A name \in EstimatorNames \cup {"Matheron"} :
           /\ set_estimator(self, StrArg(name)).exc = "none"
           /\ set_estimator(self, StrArg(name)).s._estimator = Lower(name)
    /\ set_estimator(self, CallableArg).exc = "none"
    /\ set_estimator(self, CallableArg).s._estimator = "callable"
    /\ \A a \in {StrArg("bogus"), StrArg(""), IntArg(1), NoneArg, ListArg(<<>>)} :
           /\ set_estimator(self, a).exc = "ValueError"
           /\ set_estimator(self, a).s._estimator = _estimator

\* set_estimator has rejected an argument on an object whose estimator an
\* earlier call had replaced by a callable
C24_Witness ==
    /\ last.op = "set_estimator" /\ last.exc = "ValueError"
    /\ _estimator = "callable"

\* axis strings that name neither axis
InvalidAxes == {StrArg("bogus"), StrArg("x"), StrArg("")}

\* C25: in every state set_bin_func (with any binning name), lag_groups,
\* _calc_group and get_marginal called with an axis string that is none of
\* 'space', 's', 'time', 't' raise ValueError and leave every field of the
\* object as it was.
C25_InvalidAxisRejected ==
    \A rejected \in {Raise(self, "ValueError")} : \A ax \in InvalidAxes :
        /\ \A f \in BinFuncArgs : set_bin_func(self, f, ax) = rejected
        /\ lag_groups(self, ax) = rejected
        /\ \A force \in BOOLEAN : calc_group(self, ax, force) = rejected
        /\ \A lag \in LagArgs : get_marginal(self, ax, lag) = rejected

\* set_bin_func has rejected the axis 'bogus' for a known binning name on
\* an object whose bins and groups of both axes are cached
C25_Witness ==
    /\ last.op = "set_bin_func" /\ last.axis = "bogus" /\ last.exc = "ValueError"
    /\ _xbins # None /\ _tbins # None /\ _xgroups # None /\ _tgroups # None
    /\ set_bin_func(self, StrArg("Even"), StrArg("bogus")).exc = "ValueError"

\* the derived quantities of the object: both distance arrays, both edge
\* arrays, both group arrays and the tensor
derived(s) == <<s._xdist, s._tdist, s._xbins, s._tbins, s._xgroups, s._tgroups, s._diff>>

\* the object with every derived quantity dropped
all_cleared(s) ==
    [s EXCEPT !._xdist = None, !._tdist = None, !._xbins = None, !._tbins = None,
              !._xgroups = None, !._tgroups = None, !._diff = None]

\* C26: in every state, when preprocessing(force=True) returns, both
\* distance arrays, both edge arrays, both group arrays and the tensor are
\* what the computation gives on the object with nothing cached, that is,
\* from the current coordinates, values, metrics, lag counts, maxlag and
\* binning functions.
C26_ForcedPreprocessingIsClean ==
    LET r == preprocessing(self, TRUE)
        c == preprocessing(all_cleared(self), TRUE)
    IN r.exc = "none" => (c.exc = "none" /\ derived(r.s) = derived(c.s))

\* C27: while a consumer calls setters and reads between the items of one
\* lag_classes() iteration, no step of the iteration fails on a tensor
\* that is None, and every item it yields is the selection, by the group
\* arrays the iteration bound when it started, in the tensor of that
\* moment, within the time lag count of that moment.
C27_IterationOneVersion ==
    /\ it.state = "failed" => it.exc # "TypeError"
    /\ it.state = "yielded" =>
           /\ it.tl = it.tl0
           /\ it.n - 1 = it.x * it.tl0 + it.t
           /\ it.item = select(Get(it.diff0), WhereFrom(it.xgrp, it.x, 1),
                               WhereFrom(it.tgrp, it.t, 1)).ret

\* C28: in every state a run of _calc_diff does not end in IndexError (a
\* write outside the tensor it allocated), and when it returns, the tensor
\* has one row for each pair xi < xj and one column for each pair ti < tj
\* of the value matrix and no cell of it is numpy.nan.
C28_TensorFilled ==
    LET r == calc_diff(self, TRUE)
    IN /\ r.exc # "IndexError"
       /\ r.exc = "none" =>
              /\ Len(Get(r.s._diff)) = PairCount(r.s._values.shape[1])
              /\ \A a \in 1..Len(Get(r.s._diff)) :
                     /\ Len(Get(r.s._diff)[a]) = PairCount(r.s._values.shape[2])
                     /\ \A b \in 1..Len(Get(r.s._diff)[a]) :
                            Get(r.s._diff)[a][b] # NaNCell

\* C29: a call of the maxlag setter, whatever its argument and however it
\* ends, leaves the spatial bins and groups cleared and the temporal bins,
\* the temporal groups, the temporal distances and the tensor as they
\* were, and the spatial distances as they were or, when none were cached,
\* as a read of xdistance computes them; and the edges a read of tbins
\* computes are those of the binning function called with max_lag = None,
\* whatever maxlag is stored.
C29_MaxlagSpaceOnly ==
    [][/\ last'.op = "maxlag" =>
           /\ _xbins' = None /\ _xgroups' = None
           /\ _tbins' = _tbins /\ _tgroups' = _tgroups
           /\ _tdist' = _tdist /\ _diff' = _diff
           /\ _xdist' \in {_xdist, xdistance(self).s._xdist}
       /\ (last'.op = "read_tbins" /\ last'.exc = "none" /\ _tbins = None) =>
           _tbins' = Some(bin_func(_tbin_func, tdistance(self).ret,
                                   t_lags(self).ret, None))]_vars

\* the maxlag setter has stored a number on an object whose temporal bins
\* and groups, distances and tensor are cached
C29_Witness ==
    /\ Returned("maxlag")
    /\ _maxlag # None
    /\ _xbins = None /\ _xgroups = None
    /\ _tbins # None /\ _tgroups # None
    /\ _xdist # None /\ _tdist # None /\ _diff # None

\* the number the maxlag setter derives from the distances d for the
\* argument a: their median, their mean, or the fraction of their maximum
resolved(a, d) ==
    IF a.kind = "str" THEN (IF a.s = "median" THEN median(d) ELSE mean(d))
    ELSE Rat(a.q[1] * MaxSeq(d), a.q[2])

\* C30: in every state, when the maxlag setter returns for 'median',
\* 'mean' or a fraction below 1, the stored maxlag is the number derived
\* from the spatial distances as they are read at that moment, and a
\* set_xdist_func call after it, whatever its argument, leaves the stored
\* number as it is.
C30_MaxlagResolvedOnce ==
    \A a \in {StrArg("median"), StrArg("mean"), FloatArg(1, 2)} :
        \A r \in {set_maxlag(self, a)} :
            r.exc = "none" =>
                /\ r.s._maxlag = Some(resolved(a, xdistance(self).ret))
                /\ \A m \in MetricArgs : set_xdist_func(r.s, m).s._maxlag = r.s._maxlag

\* set_xdist_func has switched to the squared metric on an object whose
\* maxlag is the median of the euclidean distances, which is not the
\* median of the distances under the new metric
C30_Witness ==
    /\ Returned("set_xdist_func")
    /\ _xdist_func = "sqeuclidean"
    /\ _xdist = None
    /\ _maxlag = Some(median(pdist(_X, "euclidean").ret))
    /\ _maxlag # Some(median(pdist(_X, "sqeuclidean").ret))


\* whether the call recorded in l is one of the setters of the lag count,
\* the binning function, maxlag or the bins of the space axis
SpaceBinsSetter(l) ==
    \/ l.op \in {"x_lags", "maxlag", "xbins"}
    \/ l.op = "set_bin_func" /\ is_space(StrArg(l.axis))

\* whether the call recorded in l is one of the setters of the lag count,
\* the binning function or the bins of the time axis
TimeBinsSetter(l) ==
    \/ l.op \in {"t_lags", "tbins"}
    \/ l.op = "set_bin_func" /\ is_time(StrArg(l.axis))

\* C31: in every state, the xbins (resp. tbins) setter called with a list
\* of edges stores these edges and their length as the lag count of its
\* axis, and the read of xbins (resp. tbins) after it returns them and
\* changes nothing; called with a lag count or a binning function it
\* leaves, when it returns, no edges stored. Edges that are stored are
\* returned by a read as they are, and they and the lag count stay as they
\* are over every call that is not a setter of the lag count, the binning
\* function, the bins or (space only) maxlag of their axis. A call of the
\* lag count setter, of set_bin_func or (space only) of the maxlag setter
\* that returns leaves no edges stored on its axis, and a read that then
\* returns stores the edges the binning function generates from the
\* distances, the lag count and (space only) maxlag.
C31_ExplicitBinsUntilReset ==
    /\ [](/\ \A b \in BinsArgs :
                /\ \A r \in {set_xbins(self, b)} :
                       /\ b.kind = "list" =>
                              /\ r.exc = "none"
                              /\ r.s._xbins = Some(b.l)
                              /\ r.s._x_lags = Len(b.l)
                              /\ xbins(r.s) = Return(r.s, b.l)
                       /\ (b.kind \in {"int", "str"} /\ r.exc = "none") =>
                              r.s._xbins = None
                /\ \A r \in {set_tbins(self, b)} :
                       /\ b.kind = "list" =>
                              /\ r.exc = "none"
                              /\ r.s._tbins = Some(b.l)
                              /\ t_lags(r.s) = Return(r.s, Len(b.l))
                              /\ tbins(r.s) = Return(r.s, b.l)
                       /\ (b.kind \in {"int", "str"} /\ r.exc = "none") =>
                              r.s._tbins = None
          /\ _xbins # None => xbins(self) = Return(self, Get(_xbins))
          /\ _tbins # None => tbins(self) = Return(self, Get(_tbins)))
    /\ [][/\ (_xbins # None /\ ~SpaceBinsSetter(last')) =>
              (_xbins' = _xbins /\ _x_lags' = _x_lags)
          /\ (_tbins # None /\ ~TimeBinsSetter(last')) =>
              (_tbins' = _tbins /\ _t_lags' = _t_lags)
          /\ (SpaceBinsSetter(last') /\ last'.op # "xbins" /\ last'.exc = "none") =>
              _xbins' = None
          /\ (TimeBinsSetter(last') /\ last'.op # "tbins" /\ last'.exc = "none") =>
              _tbins' = None
          /\ (last'.op = "read_xbins" /\ last'.exc = "none" /\ _xbins = None) =>
              _xbins' = Some(bin_func(_xbin_func, xdistance(self).ret, _x_lags, _maxlag))
          /\ (last'.op = "read_tbins" /\ last'.exc = "none" /\ _tbins = None) =>
              _tbins' = Some(bin_func(_tbin_func, tdistance(self).ret,
                                      t_lags(self).ret, None))]_vars

\* a read of xbins has returned the single explicit edge 1 that the xbins
\* setter stored, on an object built with MaxLags spatial lags whose lag
\* count is now 1; no binning function generates this edge from the
\* distances 1, 3, 2
C31_Witness ==
    /\ Returned("read_xbins")
    /\ _xbins = Some(<<(<<1, 1>>)>>)
    /\ _x_lags = 1
    /\ _maxlag = None

====
